---- MODULE Spec2Model ----
(***************************************************************************)
(* A model of fastapi_crudbuilder: the CRUDBuilder route handlers          *)
(* (builder.py), the cache key generator (generators.py) and the           *)
(* transform helpers (transform.py).                                       *)
(*                                                                         *)
(* Python values are represented as follows.                               *)
(*   Optional[T]     a sequence of length 0 (None) or 1 (the value)        *)
(*   str             a TLA+ string; f-strings are \o concatenations        *)
(*   dict / object   a function from attribute names to values             *)
(*   list            a sequence                                            *)
(* The comma-separated "relationships" query parameter is carried as the   *)
(* list of its comma-free tokens (what str.split(",") returns); the empty  *)
(* list stands for an absent or empty parameter, both falsy on the         *)
(* handlers' "if relationships:" tests.                                    *)
(***************************************************************************)
EXTENDS Integers, Sequences, FiniteSets, TLC

(* ------------------------------ bounds -------------------------------- *)

\* number of requests served in one behaviour
MaxRequests == 3
\* longest postprocessor pipeline and longest entity list given to it
MaxPipeline == 2
MaxModels == 2
\* most names in an exclude_fields set given to the schema builders
MaxExcluded == 2
\* most names in a relationships list given to build_joins
MaxNames == 3
MaxTimedRequests == 5
MaxClock == 3
TickSeconds == 30

\* the primary keys, column values and paging parameters requests use
Ids == {1, 2}
Names == {"a", "b"}
Ages == {0, 1}
Limits == {1}
Skips == {1}

(* -------------------------- program constants ------------------------- *)

\* the SQLAlchemy model the builder is constructed for: class name,
\* primary key column, non-key columns
ModelName == "Widget"
pk_name == "id"
Columns == {"name", "age"}

\* builder.py:133  cache_expiry_seconds: int = 60
cache_expiry_seconds == 60
\* builder.py:336-337  limit = 100, skip = 0
DefaultLimit == 100
DefaultSkip == 0

(* ----------------------------- Python glue ---------------------------- *)

None == << >>
Some(v) == << v >>
IsNone(o) == o = << >>

\* str.lower() of the class names in use
Lower(s) == IF s = "Widget" THEN "widget" ELSE s

\* the text an f-string renders an int primary key as: f"{item_id}"
Str(item_id) == ToString(item_id)

\* sequences over S of length at most n
RECURSIVE SeqsUpTo(_, _)
SeqsUpTo(S, n) ==
    IF n = 0 THEN {<< >>}
    ELSE LET shorter == SeqsUpTo(S, n - 1)
         IN  shorter \cup {Append(q, e) : q \in shorter, e \in S}

(* --------------------------- generators.py ---------------------------- *)

\* generate_cache_key with the postfix dropped
generate_cache_key_nopostfix(cache_prefix, item_primary_key, cache_postfix) ==
    cache_prefix \o "_" \o item_primary_key

\* generate_cache_key(cache_prefix, item_primary_key, cache_postfix=None);
\* "if cache_postfix" is false for None and for the empty string.  The
\* item_primary_key is given as the text the f-string renders it as.
generate_cache_key(cache_prefix, item_primary_key, cache_postfix) ==
    IF ~IsNone(cache_postfix) /\ cache_postfix[1] # ""
    THEN cache_prefix \o "_" \o item_primary_key \o "_" \o cache_postfix[1]
    ELSE cache_prefix \o "_" \o item_primary_key

(* ---------------------------- transform.py ---------------------------- *)

\* the postprocessors in use: entity -> entity functions on attribute "x"
Postprocessors == {"incX", "dblX"}
ApplyPostprocessor(p, model) ==
    IF p = "incX" THEN [model EXCEPT !["x"] = @ + 1]
    ELSE [model EXCEPT !["x"] = 2 * @]

\* functools.reduce(lambda model, postprocessor: postprocessor(model),
\*                  postprocessors, model)
RECURSIVE Reduce(_, _)
Reduce(postprocessors, model) ==
    IF Len(postprocessors) = 0 THEN model
    ELSE Reduce(Tail(postprocessors), ApplyPostprocessor(Head(postprocessors), model))

\* the same fold taken from the right end of the list
RECURSIVE ReduceRight(_, _)
ReduceRight(postprocessors, model) ==
    IF Len(postprocessors) = 0 THEN model
    ELSE ReduceRight(SubSeq(postprocessors, 1, Len(postprocessors) - 1),
                     ApplyPostprocessor(postprocessors[Len(postprocessors)], model))

\* an argument of run_postprocessors: a single entity or a Sequence of them
One(model) == [kind |-> "one", items |-> << model >>]
Many(models) == [kind |-> "many", items |-> models]

\* run_postprocessors folding the pipeline in reverse order
run_postprocessors_reversed(postprocessors, models) ==
    IF ~IsNone(postprocessors) /\ Len(postprocessors[1]) > 0
    THEN [models EXCEPT !.items =
            [i \in 1..Len(models.items) |-> ReduceRight(postprocessors[1], models.items[i])]]
    ELSE models

\* run_postprocessors(postprocessors, models); postprocessors is Optional
run_postprocessors(postprocessors, models) ==
    IF ~IsNone(postprocessors) /\ Len(postprocessors[1]) > 0
    THEN IF models.kind = "many"
         THEN Many([i \in 1..Len(models.items) |-> Reduce(postprocessors[1], models.items[i])])
         ELSE One(Reduce(postprocessors[1], models.items[1]))
    ELSE models

\* a sqlalchemy Column as the mapper files it: the attribute key it is
\* mapped under (the key of inspect(db_model).columns.items()), Column.name,
\* Column.type.python_type, Column.primary_key, whether Column.default is
\* set (a ColumnDefault object, truthy) and Column.nullable
Column(key, name, python_type, primary_key, default, nullable) ==
    [key |-> key, name |-> name, python_type |-> python_type,
     primary_key |-> primary_key, default |-> default, nullable |-> nullable]

\* a db_model argument: a declarative class with its mapper's columns (in
\* mapper order) and relationship names; mapped is FALSE for an argument
\* that is no mapped class (it has no __mapper__)
DbModel(name, mapped, columns, relationships) ==
    [name |-> name, mapped |-> mapped, columns |-> columns,
     relationships |-> relationships]

\* inspect(db_model).columns.items() as a set of columns
MapperColumns(db_model) == {db_model.columns[i] : i \in 1..Len(db_model.columns)}
\* inspect(db_model).relationships.keys()
RelationshipKeys(db_model) ==
    {db_model.relationships[i] : i \in 1..Len(db_model.relationships)}

\* get_pk(db_model): the first column with primary_key set, or None
RECURSIVE FirstPk(_)
FirstPk(columns) ==
    IF Len(columns) = 0 THEN None
    ELSE IF Head(columns).primary_key THEN Some(Head(columns))
    ELSE FirstPk(Tail(columns))
get_pk(db_model) == FirstPk(db_model.columns)

\* a pydantic field definition (annotation, default): Optional[T] when the
\* column is nullable; required when it has no default
Field(python_type, optional, required) ==
    [python_type |-> python_type, optional |-> optional, required |-> required]
\* a pydantic model class: name, fields by name, the "extra" setting
Schema(name, fields, extra) == [name |-> name, fields |-> fields, extra |-> extra]

\* the (type, None) tuple the three builders give create_model for a column
ColumnField(col) == Field(col.python_type, col.nullable, FALSE)
\* {name: (...) for name, col in columns if keep(col)}
ColumnFields(db_model, kept) ==
    [k \in {col.key : col \in kept} |->
        ColumnField(CHOOSE col \in MapperColumns(db_model) : col.key = k)]
\* "if exclude_fields is None: exclude_fields = set()"
Excluded(exclude_fields) == IF IsNone(exclude_fields) THEN {} ELSE exclude_fields[1]

\* get_response_model(db_model, exclude_fields): the columns and the
\* relationships whose mapper key is not excluded; {**base_columns,
\* **relationships} lets a relationship replace a column of the same key
get_response_model(db_model, exclude_fields) ==
    LET base_columns ==
            ColumnFields(db_model,
                {col \in MapperColumns(db_model) : col.key \notin Excluded(exclude_fields)})
        relationships ==
            {name \in RelationshipKeys(db_model) : name \notin Excluded(exclude_fields)}
    IN  Schema(db_model.name,
               [k \in DOMAIN base_columns \cup relationships |->
                   IF k \in relationships THEN Field("list[dict] | dict", TRUE, FALSE)
                   ELSE base_columns[k]],
               "allow")

\* get_create_schema keeping the defaulted columns
get_create_schema_defaulted(db_model, exclude_fields) ==
    Schema(db_model.name,
           ColumnFields(db_model,
               {col \in MapperColumns(db_model) :
                   col.name \notin Excluded(exclude_fields)}),
           "forbid")

\* get_create_schema(db_model, exclude_fields): fields are named by mapper
\* key; the test is "not col.default and col.name not in exclude_fields"
get_create_schema(db_model, exclude_fields) ==
    Schema(db_model.name,
           ColumnFields(db_model,
               {col \in MapperColumns(db_model) :
                   ~col.default /\ col.name \notin Excluded(exclude_fields)}),
           "forbid")

\* get_update_schema(db_model, exclude_fields): the test is
\* "not col.primary_key and col.name not in exclude_fields"
get_update_schema(db_model, exclude_fields) ==
    Schema(db_model.name,
           ColumnFields(db_model,
               {col \in MapperColumns(db_model) :
                   ~col.primary_key /\ col.name \notin Excluded(exclude_fields)}),
           "forbid")

\* pydantic validation of a JSON object against a schema class made by
\* create_model: extra="forbid" rejects unknown fields, a field without a
\* default must be present, and a value must have the field's type (None
\* only for Optional[...]).  json_types gives the JSON type of each value:
\* "int", "str" or "null"
validate(schema, payload, json_types) ==
    /\ schema.extra = "forbid" => DOMAIN payload \subseteq DOMAIN schema.fields
    /\ \A k \in DOMAIN schema.fields : schema.fields[k].required => k \in DOMAIN payload
    /\ \A k \in DOMAIN payload \cap DOMAIN schema.fields :
          \/ json_types[k] = schema.fields[k].python_type
          \/ json_types[k] = "null" /\ schema.fields[k].optional

\* the model the handlers serve: class Widget with id (primary key), name,
\* age and the relationship owner
Widget ==
    DbModel(ModelName, TRUE,
            << Column(pk_name, pk_name, "int", TRUE, FALSE, FALSE),
               Column("name", "name", "str", FALSE, FALSE, TRUE),
               Column("age", "age", "int", FALSE, FALSE, TRUE) >>,
            << "owner" >>)

\* build_joins without the "if relationship in db_model_relationships" test
build_joins_unfiltered(db_model, relationships) == relationships

\* build_joins(db_model, relationships): one joinedload per requested name
\* that is a relationship of the model, in request order
RECURSIVE build_joins(_, _)
build_joins(db_model, relationships) ==
    IF Len(relationships) = 0 THEN << >>
    ELSE IF Head(relationships) \in RelationshipKeys(db_model)
         THEN << Head(relationships) >> \o build_joins(db_model, Tail(relationships))
         ELSE build_joins(db_model, Tail(relationships))


(* ------------------- collaborators: session and cache ------------------ *)

\* the ORM entity Session.get / Session.scalars load for a row; the
\* relationship attributes named by the joinedload options are populated
Load(tbl, id, options) ==
    [id |-> id, name |-> tbl[id].name, age |-> tbl[id].age,
     rels |-> IF IsNone(options) THEN {}
              ELSE {options[1][i] : i \in 1..Len(options[1])},
     x |-> 0, sa_state |-> "persistent"]

\* Session.get(db_model, item_id, options=joins) -> entity or None
db_get(tbl, item_id, options) ==
    IF item_id \in DOMAIN tbl THEN Some(Load(tbl, item_id, options)) ELSE None

\* one entry of the per-request log of session calls
DbCall(fn, id, options, raised) ==
    [fn |-> fn, model |-> ModelName, id |-> id, options |-> options, raised |-> raised]

\* cache.get(key) -> value or None
cache_get(cch, key) == IF key \in DOMAIN cch THEN Some(cch[key].value) ELSE None
\* cache.set(key, value, expire=seconds)
cache_set(cch, key, value, expire) ==
    [k \in DOMAIN cch \cup {key} |->
        IF k = key THEN [value |-> value, expire |-> expire] ELSE cch[k]]
\* cache.delete(key)
cache_delete(cch, key) == [k \in DOMAIN cch \ {key} |-> cch[k]]
\* cache.delete_many(keys)
cache_delete_many(cch, keys) ==
    [k \in DOMAIN cch \ {keys[i] : i \in 1..Len(keys)} |-> cch[k]]

CacheCall(fn, keys) == [fn |-> fn, keys |-> keys]

\* "if cached_value:" -- None and an empty list are falsy
Truthy(cached) == ~IsNone(cached) /\ Len(cached[1].items) > 0

\* fastapi.encoders.jsonable_encoder: the public attributes of each entity
\* as a dict (attributes starting with _sa are skipped)
EncodeOne(model) == [k \in DOMAIN model \ {"sa_state"} |-> model[k]]
jsonable_encoder(models) ==
    [i \in 1..Len(models.items) |-> EncodeOne(models.items[i])]

\* a handler's reply: HTTP status, single entity or list, JSON body
Reply(kind, body) == [status |-> 200, kind |-> kind, body |-> body]
\* raise HTTPException(status, detail)
HTTPException(status) == [status |-> status, kind |-> "error", body |-> << >>]

\* an exception no handler catches: FastAPI answers 500 Internal Server Error
Unhandled(exception) == [status |-> 500, kind |-> "error", body |-> << >>]

\* what a handler run produces: reply, new table, new cache, call logs
Outcome(r, tbl, cch, dbc, cc) ==
    [resp |-> r, table |-> tbl, cache |-> cch, dbCalls |-> dbc, cacheCalls |-> cc]


\* the except block without the rollback
on_integrity_error_no_rollback(tbl, cch, dbc) ==
    Outcome(HTTPException(500), tbl, cch, dbc, << >>)

\* "except IntegrityError as e: db.rollback(); raise HTTPException(500, e)"
\* (lines 487-489, 521-523, 542-544): dbc are the session calls made up to
\* the commit that raised; the rollback leaves the rows as they were
on_integrity_error(tbl, cch, dbc) ==
    Outcome(HTTPException(500), tbl, cch,
            dbc \o << DbCall("rollback", 0, None, FALSE) >>, << >>)

(* ------------------------- builder.py: ReadOne ------------------------- *)

\* _read_one, lines 300-309: the cache key of a read-one request.  The
\* result of cache_prefix.join(f"_{relationships}") on line 305 is dropped
\* (str.join returns a new string), so cache_prefix stays the model name.
read_one_cache_key(item_id, relationships) ==
    LET cache_prefix == Lower(ModelName)
    IN  generate_cache_key(cache_prefix, Str(item_id), None)

\* lines 303-306 and 367-369: joins = None, or build_joins of the split list
request_joins(relationships) ==
    IF Len(relationships) > 0 THEN Some(build_joins(Widget, relationships)) ELSE None

\* lines 315-319 without the run_postprocessors call of line 319
read_one_fetch_unprocessed(tbl, pps, item_id, joins) ==
    LET model == db_get(tbl, item_id, joins)
    IN  [found |-> ~IsNone(model),
         model |-> IF IsNone(model) THEN Many(<< >>) ELSE One(model[1]),
         dbCalls |-> << DbCall("get", item_id, joins, FALSE) >>]

\* lines 315-319 without the "if not model" test
read_one_fetch_no404(tbl, pps, item_id, joins) ==
    LET model == db_get(tbl, item_id, joins)
    IN  [found |-> TRUE,
         model |-> IF IsNone(model) THEN Many(<< >>)
                   ELSE run_postprocessors(pps, One(model[1])),
         dbCalls |-> << DbCall("get", item_id, joins, FALSE) >>]

\* _read_one, lines 315-319: db.get, 404 when absent, postprocessors
read_one_fetch(tbl, pps, item_id, joins) ==
    LET model == db_get(tbl, item_id, joins)
    IN  [found |-> ~IsNone(model),
         model |-> IF IsNone(model) THEN Many(<< >>)
                   ELSE run_postprocessors(pps, One(model[1])),
         dbCalls |-> << DbCall("get", item_id, joins, FALSE) >>]

\* lines 321-323 without the cache.set
read_one_store_nothing(cch, hasCache, cache_key, model) ==
    [cache |-> cch, cacheCalls |-> << >>]

\* lines 321-323: "if cache: cache.set(cache_key, model, expire=...)"
read_one_store(cch, hasCache, cache_key, model) ==
    IF hasCache
    THEN [cache |-> cache_set(cch, cache_key, model, cache_expiry_seconds),
          cacheCalls |-> << CacheCall("set", << cache_key >>) >>]
    ELSE [cache |-> cch, cacheCalls |-> << >>]

\* _read_one.route(item_id, db, cache, relationships)
read_one(tbl, cch, hasCache, pps, item_id, relationships) ==
    LET joins == request_joins(relationships)
        cache_key == read_one_cache_key(item_id, relationships)
        cached_value == cache_get(cch, cache_key)
        fetched == read_one_fetch(tbl, pps, item_id, joins)
        stored == read_one_store(cch, hasCache, cache_key, fetched.model)
        looked_up == IF hasCache THEN << CacheCall("get", << cache_key >>) >> ELSE << >>
    IN  IF hasCache /\ Truthy(cached_value)
        THEN Outcome(Reply("one", jsonable_encoder(cached_value[1])), tbl, cch,
                     << >>, << CacheCall("get", << cache_key >>) >>)
        ELSE IF ~fetched.found
        THEN Outcome(HTTPException(404), tbl, cch, fetched.dbCalls, looked_up)
        ELSE Outcome(Reply("one", jsonable_encoder(fetched.model)), tbl,
                     stored.cache, fetched.dbCalls, looked_up \o stored.cacheCalls)

(* ------------------------- builder.py: ReadAll ------------------------- *)

\* the parameters of a read-all request
ReadAllParams(limit, skip, sort_field, sort_desc, equals_field, equals_value, relationships) ==
    [limit |-> limit, skip |-> skip, sort_field |-> sort_field,
     sort_desc |-> sort_desc, equals_field |-> equals_field,
     equals_value |-> equals_value, relationships |-> relationships]

\* the defaults of route()'s signature, lines 336-342
ReadAllDefaults ==
    ReadAllParams(Some(DefaultLimit), DefaultSkip, pk_name, FALSE, None, None, << >>)

\* _read_all, lines 354-372 and 401-402: the cache key of a read-all
\* request.  The three cache_prefix.join(...) results (lines 359, 364, 368)
\* are dropped, so the key does not depend on p.
read_all_cache_key(p) ==
    LET cache_prefix == Lower(ModelName)
    IN  generate_cache_key(cache_prefix, "all", None)

\* lines 357-360: the filter applies when both field and value are truthy
HasFilter(p) ==
    /\ ~IsNone(p.equals_field) /\ p.equals_field[1] # ""
    /\ ~IsNone(p.equals_value) /\ p.equals_value[1] # ""

\* the primary keys selected by .where(*filter_criteria)
Selected(tbl, p) ==
    {i \in DOMAIN tbl : HasFilter(p) => tbl[i][p.equals_field[1]] = p.equals_value[1]}

\* the value .order_by(sort) orders a row by
SortKey(tbl, i, sort_field) == IF sort_field = pk_name THEN i ELSE tbl[i][sort_field]

\* .order_by(sort): the selected keys in ascending or descending order
RECURSIVE OrderBy(_, _, _, _)
OrderBy(tbl, S, sort_field, sort_desc) ==
    IF S = {} THEN << >>
    ELSE LET first == CHOOSE i \in S : \A j \in S :
                        IF sort_desc
                        THEN SortKey(tbl, i, sort_field) >= SortKey(tbl, j, sort_field)
                        ELSE SortKey(tbl, i, sort_field) <= SortKey(tbl, j, sort_field)
         IN  << first >> \o OrderBy(tbl, S \ {first}, sort_field, sort_desc)

\* .limit(limit).offset(skip) of an ordered result
Page(ordered, limit, skip) ==
    LET rest == SubSeq(ordered, skip + 1, Len(ordered))
    IN  IF IsNone(limit) \/ limit[1] >= Len(rest) THEN rest
        ELSE SubSeq(rest, 1, limit[1])

\* lines 380-391 / 408-414: db.scalars(select(...)...).all()
read_all_query(tbl, p) ==
    LET joins == request_joins(p.relationships)
        keys == Page(OrderBy(tbl, Selected(tbl, p), p.sort_field, p.sort_desc),
                     p.limit, p.skip)
    IN  [i \in 1..Len(keys) |-> Load(tbl, keys[i], joins)]


\* lines 415-418 with the empty case raising as _read_one does
read_all_reply_404(pps, models) ==
    IF Len(models) = 0 THEN HTTPException(404)
    ELSE Reply("many", jsonable_encoder(run_postprocessors(pps, Many(models))))

\* lines 392-395 / 415-418 and the return: [] for no rows, else the
\* postprocessed rows, encoded
read_all_reply(pps, models) ==
    IF Len(models) = 0 THEN Reply("many", << >>)
    ELSE Reply("many", jsonable_encoder(run_postprocessors(pps, Many(models))))

\* _read_all.route with the hit path of lines 402-406 setting the entry again
read_all_refreshing(tbl, cch, hasCache, pps, p) ==
    LET cache_key == read_all_cache_key(p)
        cached_value == cache_get(cch, cache_key)
        models == read_all_query(tbl, p)
        dbc == << DbCall("scalars", 0, request_joins(p.relationships), FALSE) >>
    IN  IF hasCache /\ Truthy(cached_value)
        THEN Outcome(Reply("many", jsonable_encoder(cached_value[1])), tbl,
                     cache_set(cch, cache_key, cached_value[1], cache_expiry_seconds),
                     << >>,
                     << CacheCall("get", << cache_key >>),
                        CacheCall("set", << cache_key >>) >>)
        ELSE IF Len(models) = 0
        THEN Outcome(read_all_reply(pps, models), tbl, cch, dbc,
                     IF hasCache THEN << CacheCall("get", << cache_key >>) >> ELSE << >>)
        ELSE Outcome(read_all_reply(pps, models), tbl,
                     IF hasCache
                     THEN cache_set(cch, cache_key, run_postprocessors(pps, Many(models)),
                                    cache_expiry_seconds)
                     ELSE cch,
                     dbc,
                     IF hasCache
                     THEN << CacheCall("get", << cache_key >>),
                             CacheCall("set", << cache_key >>) >>
                     ELSE << >>)

\* _read_all.route(db, cache, limit, skip, sort_field, sort_desc,
\*                 equals_field, equals_value, relationships)
read_all(tbl, cch, hasCache, pps, p) ==
    LET cache_key == read_all_cache_key(p)
        cached_value == cache_get(cch, cache_key)
        models == read_all_query(tbl, p)
        dbc == << DbCall("scalars", 0, request_joins(p.relationships), FALSE) >>
    IN  IF hasCache /\ Truthy(cached_value)
        THEN Outcome(Reply("many", jsonable_encoder(cached_value[1])), tbl, cch,
                     << >>, << CacheCall("get", << cache_key >>) >>)
        ELSE IF Len(models) = 0
        THEN Outcome(read_all_reply(pps, models), tbl, cch, dbc,
                     IF hasCache THEN << CacheCall("get", << cache_key >>) >> ELSE << >>)
        ELSE Outcome(read_all_reply(pps, models), tbl,
                     IF hasCache
                     THEN cache_set(cch, cache_key, run_postprocessors(pps, Many(models)),
                                    cache_expiry_seconds)
                     ELSE cch,
                     dbc,
                     IF hasCache
                     THEN << CacheCall("get", << cache_key >>),
                             CacheCall("set", << cache_key >>) >>
                     ELSE << >>)

(* ------------------------ builder.py: CreateOne ------------------------ *)

\* _create_one dropping the cached listing after the commit
create_one_invalidating(tbl, cch, pps, payload) ==
    IF payload.id \in DOMAIN tbl
    THEN Outcome(Unhandled("IntegrityError"), tbl, cch,
                 << DbCall("add", payload.id, None, FALSE),
                    DbCall("commit", 0, None, TRUE) >>, << >>)
    ELSE LET tbl2 == [i \in DOMAIN tbl \cup {payload.id} |->
                        IF i = payload.id
                        THEN [name |-> payload.name, age |-> payload.age]
                        ELSE tbl[i]]
             model == Load(tbl2, payload.id, None)
         IN  Outcome(Reply("one", jsonable_encoder(run_postprocessors(pps, One(model)))),
                     tbl2, cache_delete(cch, "widget_all"),
                     << DbCall("add", payload.id, None, FALSE),
                        DbCall("commit", 0, None, FALSE),
                        DbCall("refresh", payload.id, None, FALSE) >>,
                     << CacheCall("delete", << "widget_all" >>) >>)

\* _create_one.route(create_schema, db): add, commit, refresh.  The commit
\* raises IntegrityError for a duplicate primary key; nothing catches it.
create_one(tbl, cch, pps, payload) ==
    IF payload.id \in DOMAIN tbl
    THEN Outcome(Unhandled("IntegrityError"), tbl, cch,
                 << DbCall("add", payload.id, None, FALSE),
                    DbCall("commit", 0, None, TRUE) >>, << >>)
    ELSE LET tbl2 == [i \in DOMAIN tbl \cup {payload.id} |->
                        IF i = payload.id
                        THEN [name |-> payload.name, age |-> payload.age]
                        ELSE tbl[i]]
             model == Load(tbl2, payload.id, None)
         IN  Outcome(Reply("one", jsonable_encoder(run_postprocessors(pps, One(model)))),
                     tbl2, cch,
                     << DbCall("add", payload.id, None, FALSE),
                        DbCall("commit", 0, None, FALSE),
                        DbCall("refresh", payload.id, None, FALSE) >>, << >>)

\* line 430, "create_schema: self.create_schema": FastAPI validates the body
\* against the schema class before it calls route() and replies 422 when
\* the body fails; the builder's create schema is the inferred one
create_one_request(tbl, cch, pps, payload, json_types) ==
    IF validate(get_create_schema(Widget, None), payload, json_types)
    THEN create_one(tbl, cch, pps, payload)
    ELSE Outcome(HTTPException(422), tbl, cch, << >>, << >>)

(* ------------------------ builder.py: UpdateOne ------------------------ *)

\* line 460: update_schema(**update_fields); every schema field is Optional
\* with default None, so the validated object carries all of Columns
UpdateSchema(update_fields) ==
    [k \in Columns |-> IF k \in DOMAIN update_fields THEN Some(update_fields[k]) ELSE None]

\* lines 473-474 assigning every field of the validated schema object
apply_update_all_fields(row, update_fields, update_schema) ==
    [k \in DOMAIN row |->
        IF ~IsNone(update_schema[k]) THEN update_schema[k][1]
        ELSE IF k = "name" THEN "" ELSE 0]

\* lines 473-474: for key in update_fields.keys():
\*                    setattr(model, key, getattr(update_schema, key))
apply_update(row, update_fields, update_schema) ==
    [k \in DOMAIN row |->
        IF k \in DOMAIN update_fields THEN update_schema[k][1] ELSE row[k]]

\* lines 481-483 with a key no reader uses
update_one_cache_key_other(item_id) ==
    generate_cache_key(Lower(ModelName), Str(item_id), Some("updated"))

\* lines 481-483: the key UpdateOne deletes
update_one_cache_key(item_id) ==
    generate_cache_key(Lower(ModelName), Str(item_id), None)

\* _update_one.route(item_id, update_fields, db, cache): update_fields is a
\* dict[str, Any], validated on line 460 by self.update_schema(**update_fields)
\* (the inferred schema); the pydantic ValidationError it raises is caught
\* by nothing
update_one(tbl, cch, hasCache, pps, item_id, update_fields, json_types, commit_raises) ==
    LET update_schema == UpdateSchema(update_fields)
        model == db_get(tbl, item_id, None)
        get == DbCall("get", item_id, None, FALSE)
    IN  IF ~validate(get_update_schema(Widget, None), update_fields, json_types)
        THEN Outcome(Unhandled("ValidationError"), tbl, cch, << >>, << >>)
        ELSE IF IsNone(model)
        THEN Outcome(HTTPException(404), tbl, cch, << get >>, << >>)
        ELSE IF commit_raises
        THEN on_integrity_error(tbl, cch,
                     << get, DbCall("add", item_id, None, FALSE),
                        DbCall("commit", 0, None, TRUE) >>)
        ELSE LET tbl2 == [tbl EXCEPT ![item_id] =
                            apply_update(tbl[item_id], update_fields, update_schema)]
                 cache_key == update_one_cache_key(item_id)
                 refreshed == Load(tbl2, item_id, None)
             IN  Outcome(Reply("one",
                               jsonable_encoder(run_postprocessors(pps, One(refreshed)))),
                         tbl2,
                         IF hasCache THEN cache_delete(cch, cache_key) ELSE cch,
                         << get, DbCall("add", item_id, None, FALSE),
                            DbCall("commit", 0, None, FALSE),
                            DbCall("refresh", item_id, None, FALSE) >>,
                         IF hasCache THEN << CacheCall("delete", << cache_key >>) >>
                         ELSE << >>)


(* ------------------------ builder.py: DeleteOne ------------------------ *)

\* lines 516-518 with a key no reader uses
delete_one_cache_key_other(item_id) ==
    generate_cache_key(Lower(ModelName), Str(item_id), Some("deleted"))

\* lines 516-518: the key DeleteOne deletes
delete_one_cache_key(item_id) ==
    generate_cache_key(Lower(ModelName), Str(item_id), None)

\* _delete_one.route(item_id, db, cache)
delete_one(tbl, cch, hasCache, pps, item_id, commit_raises) ==
    LET model == db_get(tbl, item_id, None)
        scalar == DbCall("scalar", item_id, None, FALSE)
    IN  IF IsNone(model)
        THEN Outcome(HTTPException(404), tbl, cch, << scalar >>, << >>)
        ELSE IF commit_raises
        THEN on_integrity_error(tbl, cch,
                     << scalar, DbCall("delete", item_id, None, FALSE),
                        DbCall("commit", 0, None, TRUE) >>)
        ELSE LET tbl2 == [i \in DOMAIN tbl \ {item_id} |-> tbl[i]]
                 cache_key == delete_one_cache_key(item_id)
                 detached == [model[1] EXCEPT !["sa_state"] = "detached"]
             IN  Outcome(Reply("one",
                               jsonable_encoder(run_postprocessors(pps, One(detached)))),
                         tbl2,
                         IF hasCache THEN cache_delete(cch, cache_key) ELSE cch,
                         << scalar, DbCall("delete", item_id, None, FALSE),
                            DbCall("commit", 0, None, FALSE) >>,
                         IF hasCache THEN << CacheCall("delete", << cache_key >>) >>
                         ELSE << >>)

(* ------------------------ builder.py: DeleteAll ------------------------ *)

\* lines 549-554: one key per item of the listing taken after the delete
delete_all_keys(result) ==
    [i \in 1..Len(result) |->
        generate_cache_key(Lower(ModelName), Str(result[i][pk_name]), None)]

\* _delete_all.route(db, cache): bulk delete, commit, then
\* self._read_all()(db=db) -- a plain call, so cache is None and the other
\* parameters take their defaults
delete_all(tbl, cch, hasCache, pps, commit_raises) ==
    IF commit_raises
    THEN on_integrity_error(tbl, cch,
                 << DbCall("execute", 0, None, FALSE),
                    DbCall("commit", 0, None, TRUE) >>)
    ELSE LET tbl2 == [i \in {} |-> tbl[i]]
             listing == read_all(tbl2, cch, FALSE, pps, ReadAllDefaults)
             result == listing.resp.body
             keys_to_delete == delete_all_keys(result)
         IN  Outcome(Reply("many",
                           jsonable_encoder(run_postprocessors(pps, Many(result)))),
                     tbl2,
                     IF hasCache THEN cache_delete_many(cch, keys_to_delete) ELSE cch,
                     << DbCall("execute", 0, None, FALSE),
                        DbCall("commit", 0, None, FALSE) >> \o listing.dbCalls,
                     IF hasCache THEN << CacheCall("delete_many", keys_to_delete) >>
                     ELSE << >>)

(* ------------------ builder.py: __init__ and build -------------------- *)

\* the schema a caller passes in, as the tests' TestSchema: id: int, name: str
TestSchema ==
    Schema("TestSchema",
           [k \in {"id", "name"} |->
               Field(IF k = "id" THEN "int" ELSE "str", FALSE, TRUE)],
           "ignore")

\* the constructor arguments the schemas and the route set depend on
CtorArgs(db_model, create_schema, update_schema, infer_create, infer_update, allow_delete, exclude_fields) ==
    [db_model |-> db_model,
     create_schema |-> create_schema, update_schema |-> update_schema,
     infer_create |-> infer_create, infer_update |-> infer_update,
     allow_delete |-> allow_delete, exclude_fields |-> exclude_fields]

\* what a constructor call gives: the exception it raised, or the object
Raised(exception) == [raised |-> Some(exception), self |-> None]
Constructed(self) == [raised |-> None, self |-> Some(self)]

\* lines 206-207 taking the first column when no column is a primary key
init_pk_or_first(db_model) ==
    IF ~db_model.mapped THEN Raised("AttributeError")
    ELSE IF Len(db_model.columns) = 0 THEN Raised("AttributeError")
    ELSE IF IsNone(get_pk(db_model)) THEN Constructed(Head(db_model.columns))
    ELSE Constructed(get_pk(db_model)[1])

\* lines 206-207: self.pk = get_pk(self.db_model); self.pk.description.
\* An argument without __mapper__ raises in get_pk; a None primary key
\* raises on ".description"
init_pk(db_model) ==
    IF ~db_model.mapped THEN Raised("AttributeError")
    ELSE IF IsNone(get_pk(db_model)) THEN Raised("AttributeError")
    ELSE Constructed(get_pk(db_model)[1])

\* CRUDBuilder.__init__, lines 179-210: the attributes build() and the
\* handlers read.  The schema builders raise NoInspectionAvailable from
\* inspect() for an argument that is no mapped class.
init(a) ==
    LET infers == \/ IsNone(a.create_schema) /\ a.infer_create
                  \/ IsNone(a.update_schema) /\ a.infer_update
        pk == init_pk(a.db_model)
    IN  IF infers /\ ~a.db_model.mapped THEN Raised("NoInspectionAvailable")
        ELSE IF ~IsNone(pk.raised) THEN pk
        ELSE Constructed(
            [db_model |-> a.db_model,
             create_schema |->
                IF IsNone(a.create_schema) /\ a.infer_create
                THEN Some(get_create_schema(a.db_model, a.exclude_fields))
                ELSE a.create_schema,
             update_schema |->
                IF IsNone(a.update_schema) /\ a.infer_update
                THEN Some(get_update_schema(a.db_model, a.exclude_fields))
                ELSE a.update_schema,
             infer_create |-> a.infer_create,
             infer_update |-> a.infer_update,
             allow_delete |-> a.allow_delete,
             exclude_fields |-> a.exclude_fields,
             pk_name |-> pk.self[1].name,
             pk_type |-> pk.self[1].python_type,
             response_model |-> get_response_model(a.db_model, a.exclude_fields)])

\* router.add_api_route(path, endpoint, methods=[method])
Route(path, method, endpoint) == [path |-> path, method |-> method, endpoint |-> endpoint]

\* build() mounting only the delete-one route under allow_delete
build_one_delete(self, router) ==
    (IF IsNone(router) THEN << >> ELSE router[1])
      \o << Route("/{item_id}", "GET", "_read_one"), Route("", "GET", "_read_all") >>
      \o (IF ~IsNone(self.create_schema) THEN << Route("", "POST", "_create_one") >>
          ELSE << >>)
      \o (IF ~IsNone(self.update_schema)
          THEN << Route("/{item_id}", "PUT", "_update_one") >> ELSE << >>)
      \o (IF self.allow_delete
          THEN << Route("/{item_id}", "DELETE", "_delete_one") >>
          ELSE << >>)

\* CRUDBuilder.build(router=None): the routes of the returned router; a
\* router passed in keeps the routes it has (an APIRouter is always truthy)
build(self, router) ==
    (IF IsNone(router) THEN << >> ELSE router[1])
      \o << Route("/{item_id}", "GET", "_read_one"), Route("", "GET", "_read_all") >>
      \o (IF ~IsNone(self.create_schema) THEN << Route("", "POST", "_create_one") >>
          ELSE << >>)
      \o (IF ~IsNone(self.update_schema)
          THEN << Route("/{item_id}", "PUT", "_update_one") >> ELSE << >>)
      \o (IF self.allow_delete
          THEN << Route("/{item_id}", "DELETE", "_delete_one"),
                  Route("", "DELETE", "_delete_all") >>
          ELSE << >>)

(* ------------------------------- state -------------------------------- *)

VARIABLES
    table,          \* the rows of the model's table: primary key -> columns
    cache,          \* the cache backend: key -> [value, expire]
    hasCache,       \* whether cache_func yields a cache client
    response_postprocessors,  \* the builder's pipeline (Optional list)
    last,           \* the exchange served last: request, reply, calls made
    prev,           \* the exchange served before it
    nreq,           \* requests served so far
    ctor,           \* the arguments of the latest CRUDBuilder(...) call
    builder,        \* what that call gave: the builder object, or the exception
    built,          \* the latest build(): constructor and router arguments, routes
    schemaCall,     \* the latest schema synthesis: model, exclusions, schemas
    joinCall,       \* the latest build_joins call: arguments, result
    keyCall,        \* the latest generate_cache_key call: arguments, result
    ppCall,         \* the latest run_postprocessors call: arguments, result
    clock,          \* ticks of the cache backend's clock since construction
    writeAt,        \* the tick of the latest committed write
    askedAt,        \* the tick at which the last exchange was served
    procs           \* concurrent clients: each one's position in its handler

crudVars == << table, cache, hasCache, response_postprocessors, last, prev, nreq,
               clock, writeAt, askedAt, procs >>
pureVars == << ctor, builder, built, schemaCall, joinCall, keyCall, ppCall >>
vars == << table, cache, hasCache, response_postprocessors, last, prev, nreq,
           ctor, builder, built, schemaCall, joinCall, keyCall, ppCall,
           clock, writeAt, askedAt, procs >>

\* the rows present when the builder is constructed carry these columns
SeedRow == [name |-> "a", age |-> 0]
Rows == [name : Names, age : Ages]
EmptyCache == [k \in {} |-> 0]

\* the relationships parameters requests carry
RelationshipParams == {<< >>, << "owner" >>}

\* the read-all requests clients send: the bare request (every parameter at
\* its default) and the requests that set one parameter
ReadAllRequests ==
    {ReadAllDefaults}
      \cup {[ReadAllDefaults EXCEPT !.limit = Some(l)] : l \in Limits}
      \cup {[ReadAllDefaults EXCEPT !.skip = k] : k \in Skips}
      \cup {[ReadAllDefaults EXCEPT !.sort_desc = TRUE]}
      \cup {[ReadAllDefaults EXCEPT !.equals_field = Some("name"),
                                    !.equals_value = Some(n)] : n \in Names}
      \cup {[ReadAllDefaults EXCEPT !.relationships = r] :
              r \in RelationshipParams \ {<< >>}}

\* create payloads: a new row for any primary key
CreatePayloads == {[id |-> i, name |-> SeedRow.name, age |-> SeedRow.age] : i \in Ids}

\* update payloads accepted by the update schema: any subset of Columns
UpdatePayloads ==
    {[k \in {} |-> 0], [name |-> "b"], [age |-> 1], [name |-> "b", age |-> 1]}

NoPayload == [k \in {} |-> 0]

\* the JSON types of the values of a payload that carries column values
JsonTypes(payload) ==
    [k \in DOMAIN payload |->
        (CHOOSE col \in MapperColumns(Widget) : col.key = k).python_type]
\* a request body: the JSON object and the JSON type of each of its values
Body(payload, json_types) == [payload |-> payload, json_types |-> json_types]

\* bodies the create schema rejects: an unknown field, a number for name
InvalidCreateBodies ==
    {Body([id |-> 2, name |-> "a", age |-> 0, color |-> 0],
          [id |-> "int", name |-> "str", age |-> "int", color |-> "int"]),
     Body([id |-> 2, name |-> 7, age |-> 0],
          [id |-> "int", name |-> "int", age |-> "int"])}
\* bodies the update schema rejects: an unknown field, a number for name
InvalidUpdateBodies ==
    {Body([color |-> 0], [color |-> "int"]),
     Body([name |-> 7], [name |-> "int"])}

Request(op, item_id, relationships, p, payload, json_types) ==
    [op |-> op, item_id |-> item_id, relationships |-> relationships,
     p |-> p, payload |-> payload, json_types |-> json_types]

\* an exchange: the request, what the handler produced, and the table and
\* cache the request found
Exchange(r, out, tbl, cch) ==
    [req |-> r, resp |-> out.resp, dbCalls |-> out.dbCalls,
     cacheCalls |-> out.cacheCalls, tableBefore |-> tbl, cacheBefore |-> cch]

NoExchange ==
    Exchange(Request("none", 0, << >>, ReadAllDefaults, NoPayload, NoPayload),
             Outcome(Reply("many", << >>), EmptyCache, EmptyCache, << >>, << >>),
             EmptyCache, EmptyCache)

\* no tick has passed and none of the concurrent clients (one per handler)
\* has sent its request.  A client's position: the call its handler makes
\* next, the item_id of its request, the handler's local model / result
\* (Optional), and the reply once the handler has returned (Optional)
StepIdle ==
    /\ clock = 0
    /\ writeAt = 0
    /\ askedAt = 0
    /\ procs = [c \in {"ReadOne", "UpdateOne", "DeleteOne", "DeleteAll", "CreateOne"} |->
                  [pc |-> "idle", item_id |-> 0, model |-> None, reply |-> None]]

\* serve one request: record it and install what the handler produced
Serve(r, out) ==
    /\ nreq < MaxRequests
    /\ nreq' = nreq + 1
    /\ prev' = last
    /\ last' = Exchange(r, out, table, cache)
    /\ table' = out.table
    /\ cache' = out.cache
    /\ UNCHANGED << hasCache, response_postprocessors >>
    /\ UNCHANGED << clock, writeAt, askedAt, procs >>
    /\ UNCHANGED pureVars

CrudInit ==
    /\ \E S \in SUBSET Ids : table = [i \in S |-> SeedRow]
    /\ cache = EmptyCache
    /\ hasCache \in BOOLEAN
    /\ response_postprocessors = None
    /\ last = NoExchange
    /\ prev = NoExchange
    /\ nreq = 0
    /\ StepIdle

ReadOne ==
    \E item_id \in Ids, relationships \in RelationshipParams :
        Serve(Request("ReadOne", item_id, relationships, ReadAllDefaults, NoPayload, NoPayload),
              read_one(table, cache, hasCache, response_postprocessors,
                       item_id, relationships))

ReadAll ==
    \E p \in ReadAllRequests :
        Serve(Request("ReadAll", 0, p.relationships, p, NoPayload, NoPayload),
              read_all(table, cache, hasCache, response_postprocessors, p))

CreateOne ==
    \/ \E payload \in CreatePayloads :
         Serve(Request("CreateOne", payload.id, << >>, ReadAllDefaults, payload,
                       JsonTypes(payload)),
               create_one_request(table, cache, response_postprocessors,
                                  payload, JsonTypes(payload)))
    \/ \E body \in InvalidCreateBodies :
         Serve(Request("CreateOne", body.payload.id, << >>, ReadAllDefaults,
                       body.payload, body.json_types),
               create_one_request(table, cache, response_postprocessors,
                                  body.payload, body.json_types))

UpdateOne ==
    \/ \E item_id \in Ids, update_fields \in UpdatePayloads, commit_raises \in BOOLEAN :
         Serve(Request("UpdateOne", item_id, << >>, ReadAllDefaults, update_fields,
                       JsonTypes(update_fields)),
               update_one(table, cache, hasCache, response_postprocessors,
                          item_id, update_fields, JsonTypes(update_fields),
                          commit_raises))
    \/ \E item_id \in Ids, body \in InvalidUpdateBodies, commit_raises \in BOOLEAN :
         Serve(Request("UpdateOne", item_id, << >>, ReadAllDefaults, body.payload,
                       body.json_types),
               update_one(table, cache, hasCache, response_postprocessors,
                          item_id, body.payload, body.json_types, commit_raises))

DeleteOne ==
    \E item_id \in Ids, commit_raises \in BOOLEAN :
        Serve(Request("DeleteOne", item_id, << >>, ReadAllDefaults, NoPayload, NoPayload),
              delete_one(table, cache, hasCache, response_postprocessors,
                         item_id, commit_raises))

DeleteAll ==
    \E commit_raises \in BOOLEAN :
        Serve(Request("DeleteAll", 0, << >>, ReadAllDefaults, NoPayload, NoPayload),
              delete_all(table, cache, hasCache, response_postprocessors,
                         commit_raises))

Next == ReadOne \/ ReadAll \/ CreateOne \/ UpdateOne \/ DeleteOne \/ DeleteAll

(* ------------------- requests against an expiring cache ---------------- *)

\* serve one request at the current tick; a request whose commit succeeded
\* is the latest write
ServeAt(r, out) ==
    /\ nreq < MaxTimedRequests
    /\ nreq' = nreq + 1
    /\ prev' = last
    /\ last' = Exchange(r, out, table, cache)
    /\ table' = out.table
    /\ cache' = out.cache
    /\ askedAt' = clock
    /\ writeAt' = IF \E i \in 1..Len(out.dbCalls) :
                        out.dbCalls[i].fn = "commit" /\ ~out.dbCalls[i].raised
                   THEN clock ELSE writeAt
    /\ UNCHANGED << hasCache, response_postprocessors, clock, procs >>
    /\ UNCHANGED pureVars

TimedReadAll ==
    ServeAt(Request("ReadAll", 0, << >>, ReadAllDefaults, NoPayload, NoPayload),
            read_all(table, cache, hasCache, response_postprocessors, ReadAllDefaults))

\* a write served at the current tick: CreateOne, UpdateOne, DeleteOne, DeleteAll
TimedWrite ==
    \/ \E payload \in CreatePayloads :
         ServeAt(Request("CreateOne", payload.id, << >>, ReadAllDefaults, payload,
                         JsonTypes(payload)),
                 create_one_request(table, cache, response_postprocessors, payload,
                                    JsonTypes(payload)))
    \/ \E item_id \in Ids :
         LET payload == [name |-> "b"]
         IN  ServeAt(Request("UpdateOne", item_id, << >>, ReadAllDefaults, payload,
                             JsonTypes(payload)),
                     update_one(table, cache, hasCache, response_postprocessors,
                                item_id, payload, JsonTypes(payload), FALSE))
    \/ \E item_id \in Ids :
         ServeAt(Request("DeleteOne", item_id, << >>, ReadAllDefaults, NoPayload, NoPayload),
                 delete_one(table, cache, hasCache, response_postprocessors,
                            item_id, FALSE))
    \/ ServeAt(Request("DeleteAll", 0, << >>, ReadAllDefaults, NoPayload, NoPayload),
               delete_all(table, cache, hasCache, response_postprocessors, FALSE))

\* one tick of the cache backend's clock: an entry stored with expire=s is
\* gone once s seconds have passed since its set
Tick ==
    /\ clock < MaxClock
    /\ clock' = clock + 1
    /\ cache' = [k \in {j \in DOMAIN cache : cache[j].expire > TickSeconds} |->
                    [cache[k] EXCEPT !.expire = @ - TickSeconds]]
    /\ UNCHANGED << table, hasCache, response_postprocessors, last, prev, nreq,
                    writeAt, askedAt, procs >>
    /\ UNCHANGED pureVars

TimedNext ==
    \/ TimedReadAll
    \/ TimedWrite
    \/ Tick

(* ---------------- concurrent requests, one call per step --------------- *)

\* client c moves on; nothing but the table, the cache and the clients changes
Goes(c, pc, item_id, model, reply) ==
    /\ procs' = [procs EXCEPT ![c] = [pc |-> pc, item_id |-> item_id,
                                      model |-> model, reply |-> reply]]
    /\ UNCHANGED << hasCache, response_postprocessors, last, prev, nreq,
                    clock, writeAt, askedAt >>
    /\ UNCHANGED pureVars
\* client c's handler returns or raises
Returns(c, reply) == Goes(c, "done", procs[c].item_id, procs[c].model, Some(reply))

\* _read_one, lines 308-313: cache.get and the return on a hit
ReadOneLookup ==
    /\ procs["ReadOne"].pc = "idle"
    /\ \E item_id \in Ids :
         LET cached_value == cache_get(cache, read_one_cache_key(item_id, << >>))
         IN  IF hasCache /\ Truthy(cached_value)
             THEN Goes("ReadOne", "done", item_id, None,
                       Some(Reply("one", jsonable_encoder(cached_value[1]))))
             ELSE Goes("ReadOne", "get", item_id, None, None)
    /\ UNCHANGED << table, cache >>

\* _read_one, lines 315-319: db.get, the 404, the postprocessors
ReadOneGet ==
    /\ procs["ReadOne"].pc = "get"
    /\ LET fetched == read_one_fetch(table, response_postprocessors,
                                     procs["ReadOne"].item_id, None)
       IN  IF fetched.found
           THEN Goes("ReadOne", "set", procs["ReadOne"].item_id,
                     Some(fetched.model), None)
           ELSE Returns("ReadOne", HTTPException(404))
    /\ UNCHANGED << table, cache >>

\* _read_one, lines 321-325: cache.set of the fetched model and the return
ReadOneSet ==
    /\ procs["ReadOne"].pc = "set"
    /\ LET model == procs["ReadOne"].model[1]
           stored == read_one_store(cache, hasCache,
                         read_one_cache_key(procs["ReadOne"].item_id, << >>), model)
       IN  /\ cache' = stored.cache
           /\ Returns("ReadOne", Reply("one", jsonable_encoder(model)))
    /\ UNCHANGED table

\* _update_one, lines 460-468: validation, db.get, the 404
UpdateOneGet ==
    /\ procs["UpdateOne"].pc = "idle"
    /\ \E item_id \in Ids :
         LET model == db_get(table, item_id, None)
         IN  IF IsNone(model)
             THEN Goes("UpdateOne", "done", item_id, None, Some(HTTPException(404)))
             ELSE Goes("UpdateOne", "commit", item_id, Some(One(model[1])), None)
    /\ UNCHANGED << table, cache >>

\* _update_one, lines 473-477: setattr, db.add, db.commit; the UPDATE of a
\* row another client deleted matches nothing and the flush raises
\* StaleDataError, which no except clause catches
UpdateOneCommit ==
    /\ procs["UpdateOne"].pc = "commit"
    /\ LET item_id == procs["UpdateOne"].item_id
           update_fields == [name |-> "b"]
       IN  IF item_id \in DOMAIN table
           THEN /\ table' = [table EXCEPT ![item_id] =
                                apply_update(table[item_id], update_fields,
                                             UpdateSchema(update_fields))]
                /\ Goes("UpdateOne", "refresh", item_id, procs["UpdateOne"].model, None)
           ELSE /\ table' = table
                /\ Returns("UpdateOne", Unhandled("StaleDataError"))
    /\ UNCHANGED cache

\* _update_one, line 478: db.refresh(model); it raises InvalidRequestError
\* when the row is gone
UpdateOneRefresh ==
    /\ procs["UpdateOne"].pc = "refresh"
    /\ LET item_id == procs["UpdateOne"].item_id
       IN  IF item_id \in DOMAIN table
           THEN Goes("UpdateOne", "delete_key", item_id,
                     Some(One(Load(table, item_id, None))), None)
           ELSE Returns("UpdateOne", Unhandled("InvalidRequestError"))
    /\ UNCHANGED << table, cache >>

\* _update_one, lines 480-493: cache.delete of the entity key and the return
UpdateOneDeleteKey ==
    /\ procs["UpdateOne"].pc = "delete_key"
    /\ cache' = IF hasCache
                THEN cache_delete(cache, update_one_cache_key(procs["UpdateOne"].item_id))
                ELSE cache
    /\ Returns("UpdateOne",
               Reply("one", jsonable_encoder(
                   run_postprocessors(response_postprocessors,
                                      procs["UpdateOne"].model[1]))))
    /\ UNCHANGED table

\* _delete_one, lines 508-510: db.scalar and the 404
DeleteOneScalar ==
    /\ procs["DeleteOne"].pc = "idle"
    /\ \E item_id \in Ids :
         LET model == db_get(table, item_id, None)
         IN  IF IsNone(model)
             THEN Goes("DeleteOne", "done", item_id, None, Some(HTTPException(404)))
             ELSE Goes("DeleteOne", "commit", item_id, Some(One(model[1])), None)
    /\ UNCHANGED << table, cache >>

\* _delete_one, lines 512-513: db.delete and db.commit; the DELETE of a row
\* another client deleted matches nothing, which the session only warns of
DeleteOneCommit ==
    /\ procs["DeleteOne"].pc = "commit"
    /\ table' = [i \in DOMAIN table \ {procs["DeleteOne"].item_id} |-> table[i]]
    /\ Goes("DeleteOne", "delete_key", procs["DeleteOne"].item_id,
            procs["DeleteOne"].model, None)
    /\ UNCHANGED cache

\* _delete_one, lines 515-526: cache.delete of the entity key and the return
DeleteOneDeleteKey ==
    /\ procs["DeleteOne"].pc = "delete_key"
    /\ cache' = IF hasCache
                THEN cache_delete(cache, delete_one_cache_key(procs["DeleteOne"].item_id))
                ELSE cache
    /\ Returns("DeleteOne",
               Reply("one", jsonable_encoder(
                   run_postprocessors(response_postprocessors,
                                      procs["DeleteOne"].model[1]))))
    /\ UNCHANGED table

\* _delete_all, lines 539-541: db.execute(delete(db_model)) and db.commit
DeleteAllCommit ==
    /\ procs["DeleteAll"].pc = "idle"
    /\ table' = [i \in {} |-> table[i]]
    /\ Goes("DeleteAll", "list", 0, None, None)
    /\ UNCHANGED cache

\* _delete_all, line 546: result = self._read_all()(db=db), a plain call
\* (cache is None, the parameters at their defaults) listing the table as
\* it is when the call is made
DeleteAllList ==
    /\ procs["DeleteAll"].pc = "list"
    /\ Goes("DeleteAll", "delete_many", 0,
            Some(Many(read_all(table, cache, FALSE, response_postprocessors,
                               ReadAllDefaults).resp.body)),
            None)
    /\ UNCHANGED << table, cache >>

\* _delete_all, lines 548-562: cache.delete_many of the listing's keys, the
\* postprocessors and the return
DeleteAllDeleteMany ==
    /\ procs["DeleteAll"].pc = "delete_many"
    /\ LET result == procs["DeleteAll"].model[1]
       IN  /\ cache' = IF hasCache
                       THEN cache_delete_many(cache, delete_all_keys(result.items))
                       ELSE cache
           /\ Returns("DeleteAll",
                      Reply("many", jsonable_encoder(
                          run_postprocessors(response_postprocessors, result))))
    /\ UNCHANGED table

\* _create_one, lines 438-440: db.add and db.commit; a duplicate primary
\* key raises IntegrityError out of the handler
CreateOneCommit ==
    /\ procs["CreateOne"].pc = "idle"
    /\ \E payload \in CreatePayloads :
         LET out == create_one(table, cache, response_postprocessors, payload)
         IN  /\ table' = out.table
             /\ IF out.resp.status = 200
                THEN Goes("CreateOne", "refresh", payload.id, None, None)
                ELSE Goes("CreateOne", "done", payload.id, None, Some(out.resp))
    /\ UNCHANGED cache

\* _create_one, lines 441-445: db.refresh(model), which raises
\* InvalidRequestError when the row is gone, the postprocessors, the return
CreateOneRefresh ==
    /\ procs["CreateOne"].pc = "refresh"
    /\ LET item_id == procs["CreateOne"].item_id
       IN  IF item_id \in DOMAIN table
           THEN Returns("CreateOne",
                        Reply("one", jsonable_encoder(
                            run_postprocessors(response_postprocessors,
                                               One(Load(table, item_id, None))))))
           ELSE Returns("CreateOne", Unhandled("InvalidRequestError"))
    /\ UNCHANGED << table, cache >>

RaceNext ==
    \/ ReadOneLookup
    \/ ReadOneGet
    \/ ReadOneSet
    \/ UpdateOneGet
    \/ UpdateOneCommit
    \/ UpdateOneRefresh
    \/ UpdateOneDeleteKey
    \/ DeleteOneScalar
    \/ DeleteOneCommit
    \/ DeleteOneDeleteKey
    \/ DeleteAllCommit
    \/ DeleteAllList
    \/ DeleteAllDeleteMany
    \/ CreateOneCommit
    \/ CreateOneRefresh

\* no request is served: the state of the handlers' collaborators is idle
CrudIdle ==
    /\ table = EmptyCache
    /\ cache = EmptyCache
    /\ hasCache = FALSE
    /\ response_postprocessors = None
    /\ last = NoExchange
    /\ prev = NoExchange
    /\ nreq = 0
    /\ StepIdle

(* --------------------- construction and build() ------------------------ *)

\* a mapped class without a primary key column, and the tests' argument
\* that is no class at all (the string "InvalidModel")
NoPkModel ==
    DbModel("Log", TRUE, << Column("line", "line", "str", FALSE, FALSE, TRUE) >>, << >>)
InvalidModel == DbModel("InvalidModel", FALSE, << >>, << >>)

\* the constructor arguments tried
CtorModels == {Widget, NoPkModel, InvalidModel}
SchemaArgs == {None, Some(TestSchema)}
ExcludeArgs == {None}
AllCtorArgs ==
    {CtorArgs(m, c, u, ic, iu, d, x) :
        m \in CtorModels, c \in SchemaArgs, u \in SchemaArgs, ic \in BOOLEAN,
        iu \in BOOLEAN, d \in BOOLEAN, x \in ExcludeArgs}
\* the router arguments tried: none, an empty router, one with a route
RouterArgs == {None, Some(<< >>), Some(<< Route("/health", "GET", "health") >>)}

NoCtor == CtorArgs(Widget, None, None, FALSE, FALSE, FALSE, None)
NoBuild == [args |-> NoCtor, router |-> None, routes |-> << >>, done |-> FALSE]

BuildInit ==
    /\ ctor = NoCtor
    /\ builder = Raised("none")
    /\ built = NoBuild

\* CRUDBuilder(db_func, db_model, create_schema=..., ...): the call raises
\* or gives the builder object
Construct ==
    /\ \E a \in AllCtorArgs :
         /\ ctor' = a
         /\ builder' = init(a)
    /\ UNCHANGED << built, schemaCall, joinCall, keyCall, ppCall >>
    /\ UNCHANGED crudVars

\* builder.build(router) on the object the constructor gave
Build ==
    /\ ~IsNone(builder.self)
    /\ \E router \in RouterArgs :
         built' = [args |-> ctor, router |-> router,
                   routes |-> build(builder.self[1], router), done |-> TRUE]
    /\ UNCHANGED << ctor, builder, schemaCall, joinCall, keyCall, ppCall >>
    /\ UNCHANGED crudVars

BuildNext == Construct \/ Build

(* -------------------------- schema synthesis --------------------------- *)

\* the columns models are assembled from: a primary key with and without a
\* default, a plain column, a defaulted column, and a column mapped under
\* an attribute key that differs from its name
PkColumns ==
    {Column("id", "id", "int", TRUE, FALSE, FALSE),
     Column("id", "id", "int", TRUE, TRUE, FALSE)}
PlainColumns ==
    << Column("name", "name", "str", FALSE, FALSE, TRUE),
       Column("age", "age", "int", FALSE, TRUE, FALSE),
       Column("owner_id", "owner_fk", "int", FALSE, FALSE, TRUE) >>

\* the subsequence of q at the positions in S
RECURSIVE Pick(_, _, _)
Pick(q, S, i) ==
    IF i > Len(q) THEN << >>
    ELSE (IF i \in S THEN << q[i] >> ELSE << >>) \o Pick(q, S, i + 1)

\* the models tried: at most one primary key, any of the other columns,
\* with and without a relationship
SchemaModels ==
    {DbModel("Widget", TRUE, pk \o Pick(PlainColumns, S, 1), r) :
        pk \in {<< >>} \cup {<< c >> : c \in PkColumns},
        S \in SUBSET (1..Len(PlainColumns)),
        r \in {<< >>, << "owner" >>}}
\* the exclude_fields arguments tried
SchemaExclusions ==
    {None} \cup {Some(S) : S \in {T \in SUBSET {"id", "name", "age", "owner_id", "owner_fk", "owner"} :
                                    Cardinality(T) <= MaxExcluded}}

NoSchemaCall ==
    [db_model |-> Widget, exclude_fields |-> None,
     response |-> Schema("", << >>, ""), create |-> Schema("", << >>, ""),
     update |-> Schema("", << >>, ""), done |-> FALSE]

SchemaInit == schemaCall = NoSchemaCall

\* the three schema builders applied to one model and exclusion set, as
\* __init__ applies them (lines 201-210)
Synthesize ==
    /\ \E db_model \in SchemaModels, exclude_fields \in SchemaExclusions :
         schemaCall' = [db_model |-> db_model, exclude_fields |-> exclude_fields,
                        response |-> get_response_model(db_model, exclude_fields),
                        create |-> get_create_schema(db_model, exclude_fields),
                        update |-> get_update_schema(db_model, exclude_fields),
                        done |-> TRUE]
    /\ UNCHANGED << ctor, builder, built, joinCall, keyCall, ppCall >>
    /\ UNCHANGED crudVars

SchemaNext == Synthesize

(* ----------------------------- build_joins ----------------------------- *)

\* the models tried: Widget, and one with two relationships
JoinModels ==
    {Widget,
     DbModel("Owner", TRUE, << Column("id", "id", "int", TRUE, FALSE, FALSE) >>,
             << "widgets", "owner" >>)}
\* the names requested: relationships, a column, an unknown name and the
\* empty token of "a,,b".split(",")
JoinNames == {"owner", "widgets", "name", "bogus", ""}

\* the ReadOne request whose relationships parameter splits into the names:
\* _read_one (lines 303-306, 315) on a table holding row 1, without a cache
ReadOneWith(relationships) ==
    read_one([i \in {1} |-> SeedRow], EmptyCache, FALSE, None, 1, relationships)

NoJoinCall == [db_model |-> Widget, relationships |-> << >>, joins |-> << >>,
               read |-> ReadOneWith(<< >>), done |-> FALSE]

JoinInit == joinCall = NoJoinCall

BuildJoins ==
    /\ \E db_model \in JoinModels, relationships \in SeqsUpTo(JoinNames, MaxNames) :
         joinCall' = [db_model |-> db_model, relationships |-> relationships,
                      joins |-> build_joins(db_model, relationships),
                      read |-> ReadOneWith(relationships), done |-> TRUE]
    /\ UNCHANGED << ctor, builder, built, schemaCall, keyCall, ppCall >>
    /\ UNCHANGED crudVars

JoinNext == BuildJoins

(* ------------------------- generate_cache_key -------------------------- *)

KeyPrefixes == {"widget", "gadget", "feed_item_content", "widget_5"}
KeyIds == {"5", "6", "12", "all", "5_rel"}
KeyPostfixes == {None, Some(""), Some("rel"), Some("staging"), Some("5"), Some("_")}

NoKeyCall == [cache_prefix |-> "", item_primary_key |-> "", cache_postfix |-> None,
              key |-> "", done |-> FALSE]

KeyInit == keyCall = NoKeyCall

GenerateCacheKey ==
    /\ \E cache_prefix \in KeyPrefixes, item_primary_key \in KeyIds,
          cache_postfix \in KeyPostfixes :
         keyCall' = [cache_prefix |-> cache_prefix,
                     item_primary_key |-> item_primary_key,
                     cache_postfix |-> cache_postfix,
                     key |-> generate_cache_key(cache_prefix, item_primary_key,
                                                cache_postfix),
                     done |-> TRUE]
    /\ UNCHANGED << ctor, builder, built, schemaCall, joinCall, ppCall >>
    /\ UNCHANGED crudVars

KeyNext == GenerateCacheKey

(* ------------------------- run_postprocessors -------------------------- *)

\* the pipelines tried: absent, empty, and every list up to MaxPipeline
Pipelines == {None} \cup {Some(q) : q \in SeqsUpTo(Postprocessors, MaxPipeline)}
\* the entities tried
PPEntities ==
    {[id |-> i, name |-> "a", age |-> 0, rels |-> {}, x |-> v,
      sa_state |-> "persistent"] : i \in Ids, v \in {0, 1}}
\* the arguments tried: a single entity, or a list of up to MaxModels
PPModels == {One(e) : e \in PPEntities}
              \cup {Many(q) : q \in SeqsUpTo(PPEntities, MaxModels)}

NoPPCall == [postprocessors |-> None, models |-> Many(<< >>),
             result |-> Many(<< >>), done |-> FALSE]

PPInit == ppCall = NoPPCall

RunPostprocessors ==
    /\ \E postprocessors \in Pipelines, models \in PPModels :
         ppCall' = [postprocessors |-> postprocessors, models |-> models,
                    result |-> run_postprocessors(postprocessors, models),
                    done |-> TRUE]
    /\ UNCHANGED << ctor, builder, built, schemaCall, joinCall, keyCall >>
    /\ UNCHANGED crudVars

PPNext == RunPostprocessors

(* --------------------------- specifications --------------------------- *)

PureIdle == BuildInit /\ SchemaInit /\ JoinInit /\ KeyInit /\ PPInit

\* the request handlers of a built router serving requests one at a time
Init == CrudInit /\ PureIdle
Spec == Init /\ [][Next]_vars

\* constructing builders and building routers
InitIdle == CrudIdle /\ PureIdle
SpecBuild == InitIdle /\ [][BuildNext]_vars

\* schema synthesis over models and exclusion sets
SpecSchema == InitIdle /\ [][SchemaNext]_vars

\* calls of build_joins
SpecJoin == InitIdle /\ [][JoinNext]_vars

\* calls of generate_cache_key
SpecKey == InitIdle /\ [][KeyNext]_vars

\* calls of run_postprocessors
SpecPP == InitIdle /\ [][PPNext]_vars

\* the request handlers of a cache-enabled builder constructed with
\* response_postprocessors over a populated table
InitPipe ==
    /\ table = [i \in Ids |-> SeedRow]
    /\ cache = EmptyCache
    /\ hasCache = TRUE
    /\ response_postprocessors \in {Some(<< "incX" >>), Some(<< "incX", "dblX" >>)}
    /\ last = NoExchange
    /\ prev = NoExchange
    /\ nreq = 0
    /\ StepIdle
    /\ PureIdle
SpecPipe == InitPipe /\ [][Next]_vars

\* the request handlers of a cache-enabled builder while the clock of the
\* cache backend runs
InitCached == CrudInit /\ hasCache /\ PureIdle
SpecTTL == InitCached /\ [][TimedNext]_vars

\* one client per handler sending its request to a cache-enabled builder,
\* the handlers' session and cache calls interleaving
SpecRace == InitCached /\ [][RaceNext]_vars

(* ------------------------------- claims -------------------------------- *)

\* the cache key of one entity and of the list, written out
EntityKey(id) == "widget_" \o ToString(id)
ListKey == "widget_all"

\* the exchange was served by the given handler
Served(e, op) == e.req.op = op
Succeeded(e, op) == e.req.op = op /\ e.resp.status = 200
\* a read-one exchange that found no usable cache entry
ReadOneMiss(e) ==
    /\ Served(e, "ReadOne")
    /\ (~hasCache \/ EntityKey(e.req.item_id) \notin DOMAIN e.cacheBefore)

\* C1: a ReadOne(id) served without a cache hit returns the entity of the row
\* with primary key id if there is one and fails with 404 if there is none;
\* either way Session.get is called exactly once, with the model class and id.
C1_ReadOneMiss ==
    ReadOneMiss(last) =>
        LET id == last.req.item_id
            tb == last.tableBefore
        IN  /\ id \in DOMAIN tb =>
                /\ last.resp.status = 200
                /\ last.resp.kind = "one"
                /\ Len(last.resp.body) = 1
                /\ last.resp.body[1].id = id
                /\ last.resp.body[1].name = tb[id].name
                /\ last.resp.body[1].age = tb[id].age
            /\ id \notin DOMAIN tb => last.resp.status = 404
            /\ Len(last.dbCalls) = 1
            /\ last.dbCalls[1].fn = "get"
            /\ last.dbCalls[1].model = "Widget"
            /\ last.dbCalls[1].id = id

\* C1 case: with a cache configured, a ReadOne that failed with 404 is followed
\* by a ReadOne of an existing row that misses the cache
C1_Witness ==
    /\ hasCache
    /\ ReadOneMiss(prev) /\ prev.resp.status = 404
    /\ ReadOneMiss(last) /\ last.resp.status = 200
    /\ Len(last.req.relationships) > 0

\* C2: after a successful UpdateOne(id, payload) every column named in the
\* payload holds the payload's value and every other column of the row holds
\* the value it had before the request.
C2_PartialUpdate ==
    Succeeded(last, "UpdateOne") =>
        LET id == last.req.item_id
            payload == last.req.payload
        IN  /\ id \in DOMAIN table
            /\ \A k \in Columns :
                 IF k \in DOMAIN payload
                 THEN table[id][k] = payload[k]
                 ELSE table[id][k] = last.tableBefore[id][k]

\* C2 case: a payload naming only "name" changes the name of a row whose age
\* is not the column's empty value
C2_Witness ==
    /\ Succeeded(last, "UpdateOne")
    /\ DOMAIN last.req.payload = {"name"}
    /\ last.tableBefore[last.req.item_id].age = 1
    /\ last.tableBefore[last.req.item_id].name # last.req.payload.name
    /\ table[last.req.item_id].name = last.req.payload.name

\* C3: with a cache configured, a successful UpdateOne(id) deletes the cache
\* entry EntityKey(id) (and only if the commit succeeded), and a ReadOne(id)
\* served next returns the updated columns, whatever its relationships
\* parameter and whatever entry earlier reads had cached.
C3_UpdateInvalidates ==
    hasCache =>
        /\ Succeeded(last, "UpdateOne") =>
              /\ EntityKey(last.req.item_id) \notin DOMAIN cache
              /\ last.cacheCalls = << CacheCall("delete", << EntityKey(last.req.item_id) >>) >>
        /\ (Served(last, "UpdateOne") /\ last.resp.status # 200) =>
              /\ last.cacheCalls = << >>
              /\ cache = last.cacheBefore
        /\ (Succeeded(prev, "UpdateOne") /\ Served(last, "ReadOne")
              /\ last.req.item_id = prev.req.item_id) =>
              /\ last.resp.status = 200
              /\ last.resp.body[1].name = prev.resp.body[1].name
              /\ last.resp.body[1].age = prev.resp.body[1].age
              /\ \A k \in DOMAIN prev.req.payload :
                    last.resp.body[1][k] = prev.req.payload[k]

\* C3 case: the update found a cached entity with another name, and the next
\* ReadOne of the same id asks for relationships
C3_Witness ==
    /\ hasCache
    /\ Succeeded(prev, "UpdateOne")
    /\ EntityKey(prev.req.item_id) \in DOMAIN prev.cacheBefore
    /\ "name" \in DOMAIN prev.req.payload
    /\ prev.cacheBefore[EntityKey(prev.req.item_id)].value.items[1].name
          # prev.req.payload.name
    /\ Succeeded(last, "ReadOne")
    /\ last.req.item_id = prev.req.item_id
    /\ Len(last.req.relationships) > 0

\* C4: a ReadAll served right after a successful DeleteAll on a non-empty
\* table returns an empty sequence, with or without a cache.
C4_ReadAllAfterDeleteAll ==
    (/\ Succeeded(prev, "DeleteAll")
     /\ DOMAIN prev.tableBefore # {}
     /\ Served(last, "ReadAll")) => last.resp.body = << >>

\* C5: after a successful DeleteAll with a cache configured no per-id cache
\* entry of a deleted row remains.
C5_DeleteAllInvalidates ==
    (hasCache /\ Succeeded(last, "DeleteAll")) =>
        \A id \in DOMAIN last.tableBefore : EntityKey(id) \notin DOMAIN cache

\* the rows a read-all request selects from a table: those passing the
\* equality filter, less the skipped ones, at most limit of them
NumSelected(tb, p) ==
    LET pass == {i \in DOMAIN tb :
                    (~IsNone(p.equals_field) /\ ~IsNone(p.equals_value))
                        => tb[i][p.equals_field[1]] = p.equals_value[1]}
        rest == IF Cardinality(pass) > p.skip THEN Cardinality(pass) - p.skip ELSE 0
    IN  IF rest > p.limit[1] THEN p.limit[1] ELSE rest

\* a read-all exchange that ran its query (it found no usable cache entry)
ReadAllMiss(e) ==
    /\ Served(e, "ReadAll")
    /\ (~hasCache \/ ListKey \notin DOMAIN e.cacheBefore)

\* C6: ReadAll never fails with 404; whenever its query runs and selects no
\* rows (after filter, skip and limit) it replies with an empty sequence, with
\* or without a cache and with or without a relationships parameter.
C6_ReadAllEmpty ==
    Served(last, "ReadAll") =>
        /\ last.resp.status = 200
        /\ last.resp.kind = "many"
        /\ (ReadAllMiss(last) /\ NumSelected(last.tableBefore, last.req.p) = 0)
              => last.resp.body = << >>
        /\ ReadAllMiss(last)
              => Len(last.resp.body) = NumSelected(last.tableBefore, last.req.p)

\* C6 case: with a cache configured, a filter that matches none of the rows
\* of a non-empty table
C6_Witness ==
    /\ hasCache
    /\ ReadAllMiss(last)
    /\ DOMAIN last.tableBefore # {}
    /\ ~IsNone(last.req.p.equals_field)
    /\ NumSelected(last.tableBefore, last.req.p) = 0
    /\ last.resp.body = << >>

\* whether a route with this path and method is among the routes
Mounted(routes, path, method) ==
    \E i \in 1..Len(routes) : routes[i].path = path /\ routes[i].method = method
Bit(b) == IF b THEN 1 ELSE 0

\* C7: build() mounts the two read routes always, the create route iff a
\* create schema was given or inferred, the update route iff an update schema
\* was given or inferred, both delete routes iff allow_delete; a new router
\* has 2 + [create] + [update] + 2*[delete] routes: 4 with both schemas and
\* delete disabled, 6 with delete enabled.
C7_Routes ==
    built.done =>
        LET a == built.args
            create == ~IsNone(a.create_schema) \/ a.infer_create
            update == ~IsNone(a.update_schema) \/ a.infer_update
            given == IF IsNone(built.router) THEN 0 ELSE Len(built.router[1])
            routes == built.routes
        IN  /\ Mounted(routes, "/{item_id}", "GET")
            /\ Mounted(routes, "", "GET")
            /\ Mounted(routes, "", "POST") <=> create
            /\ Mounted(routes, "/{item_id}", "PUT") <=> update
            /\ Mounted(routes, "/{item_id}", "DELETE") <=> a.allow_delete
            /\ Mounted(routes, "", "DELETE") <=> a.allow_delete
            /\ Len(routes) = given + 2 + Bit(create) + Bit(update) + 2 * Bit(a.allow_delete)
            /\ (IsNone(built.router) /\ create /\ update)
                  => Len(routes) = IF a.allow_delete THEN 6 ELSE 4

\* C7 case: a new router built with an inferred create schema, a given update
\* schema and delete enabled has six routes
C7_Witness ==
    /\ built.done
    /\ IsNone(built.router)
    /\ IsNone(built.args.create_schema) /\ built.args.infer_create
    /\ ~IsNone(built.args.update_schema)
    /\ built.args.allow_delete
    /\ Len(built.routes) = 6

\* C8: generate_cache_key returns prefix_id when no qualifier is present
\* (None, or the empty string) and prefix_id_qualifier when one is present,
\* and the key with a qualifier differs from the key without one;
\* ("widget","5") gives "widget_5" and ("widget","5","rel") "widget_5_rel".
C8_KeyFormat ==
    keyCall.done =>
        LET bare == keyCall.cache_prefix \o "_" \o keyCall.item_primary_key
            absent == IsNone(keyCall.cache_postfix) \/ keyCall.cache_postfix = Some("")
        IN  /\ absent => keyCall.key = bare
            /\ ~absent =>
                  /\ keyCall.key = bare \o "_" \o keyCall.cache_postfix[1]
                  /\ keyCall.key # bare
            /\ (keyCall.cache_prefix = "widget" /\ keyCall.item_primary_key = "5") =>
                  /\ IsNone(keyCall.cache_postfix) => keyCall.key = "widget_5"
                  /\ keyCall.cache_postfix = Some("rel") => keyCall.key = "widget_5_rel"

\* C8 case: the call ("widget", "5", "rel")
C8_Witness ==
    /\ keyCall.done
    /\ keyCall.cache_prefix = "widget"
    /\ keyCall.item_primary_key = "5"
    /\ keyCall.cache_postfix = Some("rel")
    /\ keyCall.key = "widget_5_rel"

\* the qualifiers of a read-all request: filter, descending sort, relationships
Qualifiers(p) == << p.equals_field, p.equals_value, p.sort_desc, p.relationships >>
\* the cache key an exchange looked up
KeyUsed(e) == e.cacheCalls[1].keys[1]

\* C9: with a cache configured, two consecutive ReadAll requests that differ
\* in filter, descending sort or relationships use different cache keys, and
\* so do two consecutive ReadOne requests for one id that differ in
\* relationships.
C9_KeysDependOnQualifiers ==
    hasCache =>
        /\ (Served(prev, "ReadAll") /\ Served(last, "ReadAll")
              /\ Qualifiers(prev.req.p) # Qualifiers(last.req.p))
              => KeyUsed(prev) # KeyUsed(last)
        /\ (Served(prev, "ReadOne") /\ Served(last, "ReadOne")
              /\ prev.req.item_id = last.req.item_id
              /\ prev.req.relationships # last.req.relationships)
              => KeyUsed(prev) # KeyUsed(last)

\* the pipeline applied to an entity, first transform innermost
RECURSIVE Composed(_, _, _)
Composed(pipeline, k, model) ==
    IF k = 0 THEN model
    ELSE ApplyPostprocessor(pipeline[k], Composed(pipeline, k - 1, model))

\* C10: run_postprocessors applies the transforms in list order, each to the
\* previous one's result: a sequence of n entities gives the n results in the
\* same order, a single entity gives the single result, an empty or absent
\* pipeline gives the argument unchanged; single or sequence shape is kept.
C10_Pipeline ==
    ppCall.done =>
        LET pps == ppCall.postprocessors
            pipeline == IF IsNone(pps) THEN << >> ELSE pps[1]
            arg == ppCall.models
            res == ppCall.result
        IN  /\ res.kind = arg.kind
            /\ Len(res.items) = Len(arg.items)
            /\ \A i \in 1..Len(arg.items) :
                  res.items[i] = Composed(pipeline, Len(pipeline), arg.items[i])
            /\ Len(pipeline) = 0 => res = arg

\* C10 case: a two-transform pipeline whose order matters, applied to a list
\* of two different entities
C10_Witness ==
    /\ ppCall.done
    /\ ppCall.postprocessors = Some(<< "incX", "dblX" >>)
    /\ ppCall.models.kind = "many"
    /\ Len(ppCall.models.items) = 2
    /\ ppCall.models.items[1] # ppCall.models.items[2]
    /\ ppCall.result.items[1].x = 2 * (ppCall.models.items[1].x + 1)
    /\ ppCall.result.items[2].x = 2 * (ppCall.models.items[2].x + 1)

\* the names a model's schemas may use: mapper keys, column names and
\* relationship names
ModelNames(m) ==
    {m.columns[i].key : i \in 1..Len(m.columns)}
      \cup {m.columns[i].name : i \in 1..Len(m.columns)}
      \cup {m.relationships[i] : i \in 1..Len(m.relationships)}
NumPks(m) == Cardinality({i \in 1..Len(m.columns) : m.columns[i].primary_key})
ExcludedNames(call) ==
    IF IsNone(call.exclude_fields) THEN {} ELSE call.exclude_fields[1]

\* C11: for a model with exactly one primary-key column and any exclusion
\* set, the field names of the response, create and update schemas are names
\* of the model's columns or relationships and none of them is in the
\* exclusion set, also when a column's attribute key differs from its name.
C11_SchemaFields ==
    (schemaCall.done /\ NumPks(schemaCall.db_model) = 1) =>
        \A schema \in {schemaCall.response, schemaCall.create, schemaCall.update} :
            /\ DOMAIN schema.fields \subseteq ModelNames(schemaCall.db_model)
            /\ DOMAIN schema.fields \cap ExcludedNames(schemaCall) = {}

\* the columns of a model as a set of positions
ColumnIndexes(m) == 1..Len(m.columns)

HasPk(db_model) ==
    db_model.mapped /\ \E i \in 1..Len(db_model.columns) : db_model.columns[i].primary_key

\* C12: a CRUDBuilder(...) call for a model from which no primary-key column
\* can be resolved raises during construction and gives no builder object
\* (so does the tests' call with a non-model argument), and every router
\* ever built was built for a model with a primary key.
C12_NoPkConstruction ==
    /\ ~HasPk(ctor.db_model) => (~IsNone(builder.raised) /\ IsNone(builder.self))
    /\ ~IsNone(builder.self) => HasPk(builder.self[1].db_model)
    /\ built.done => HasPk(built.args.db_model)
    /\ (ctor.db_model = InvalidModel /\ ~IsNone(ctor.create_schema)
          /\ ~IsNone(ctor.update_schema))
          => builder.raised = Some("AttributeError")

\* C12 case: after a router was built for Widget, a constructor call with
\* inferred schemas for the model without a primary key raised
C12_Witness ==
    /\ built.done
    /\ ctor.db_model = NoPkModel
    /\ ctor.infer_create /\ IsNone(ctor.create_schema)
    /\ builder.raised = Some("AttributeError")
    /\ IsNone(builder.self)

\* the number of positions up to i of a request that name a relationship
Rank(m, relationships, i) ==
    Cardinality({j \in 1..i : relationships[j] \in {m.relationships[k] : k \in 1..Len(m.relationships)}})

\* C14: build_joins gives one directive for each occurrence of a requested
\* name that is a relationship of the model, in request order, and none for
\* any other name; an unknown name raises nothing, so a ReadOne whose
\* relationships are all unknown fetches with an empty directive list and
\* replies with the entity, no relationship loaded.
C14_Joins ==
    joinCall.done =>
        LET m == joinCall.db_model
            rel == joinCall.relationships
            known == {m.relationships[k] : k \in 1..Len(m.relationships)}
            read == joinCall.read
        IN  /\ Len(joinCall.joins) = Rank(m, rel, Len(rel))
            /\ \A i \in 1..Len(rel) :
                  rel[i] \in known => joinCall.joins[Rank(m, rel, i)] = rel[i]
            /\ (Len(rel) > 0 /\ Rank(Widget, rel, Len(rel)) = 0) =>
                  /\ read.resp.status = 200
                  /\ read.dbCalls = << DbCall("get", 1, Some(<< >>), FALSE) >>
                  /\ read.resp.body[1].rels = {}
                  /\ read.resp.body = ReadOneWith(<< >>).resp.body

\* C14 case: a request naming a relationship twice around an unknown name
C14_Witness ==
    /\ joinCall.done
    /\ joinCall.relationships = << "owner", "bogus", "owner" >>
    /\ joinCall.joins = << "owner", "owner" >>
    /\ joinCall.read.resp.body[1].rels = {"owner"}

\* the session calls of an exchange with the given name
CallsOf(e, fn) == {i \in 1..Len(e.dbCalls) : e.dbCalls[i].fn = fn}
\* a commit of the exchange raised
CommitRaised(e) == \E i \in CallsOf(e, "commit") : e.dbCalls[i].raised
\* the session is left with an entity added or changed by the exchange that
\* no later commit made durable and no later rollback discarded
PendingAfter(e) ==
    \E i \in CallsOf(e, "add") \cup CallsOf(e, "delete") \cup CallsOf(e, "execute") :
        ~\E j \in (i + 1)..Len(e.dbCalls) :
            \/ e.dbCalls[j].fn = "commit" /\ ~e.dbCalls[j].raised
            \/ e.dbCalls[j].fn = "rollback"

\* C15: when the commit of a CreateOne raises a constraint violation the
\* handler calls rollback and the reply is a 500; afterwards the session
\* holds no pending entity and the rows are those before the request.
C15_CreateRollsBack ==
    (Served(last, "CreateOne") /\ CommitRaised(last)) =>
        /\ last.resp.status = 500
        /\ Cardinality(CallsOf(last, "rollback")) = 1
        /\ ~PendingAfter(last)
        /\ table = last.tableBefore

\* C16: when the commit of an UpdateOne, DeleteOne or DeleteAll raises a
\* constraint violation the handler calls rollback exactly once, after the
\* commit, and replies 500; the rows are those before the request and the
\* request makes no cache call and leaves the cache as it was.
C16_MutationRollsBack ==
    (last.req.op \in {"UpdateOne", "DeleteOne", "DeleteAll"} /\ CommitRaised(last)) =>
        /\ last.resp.status = 500
        /\ Cardinality(CallsOf(last, "rollback")) = 1
        /\ last.dbCalls[Len(last.dbCalls)].fn = "rollback"
        /\ last.dbCalls[Len(last.dbCalls) - 1].fn = "commit"
        /\ ~PendingAfter(last)
        /\ table = last.tableBefore
        /\ last.cacheCalls = << >>
        /\ cache = last.cacheBefore

\* C16 case: with the list and the entity cached, a DeleteAll whose commit
\* raised
C16_Witness ==
    /\ hasCache
    /\ Served(last, "DeleteAll") /\ CommitRaised(last)
    /\ DOMAIN last.tableBefore # {}
    /\ {ListKey, EntityKey(1)} \subseteq DOMAIN cache

\* C17: a DeleteOne(id) for which no row exists replies 404 and changes
\* neither rows nor cache; otherwise it removes that row and no other,
\* commits, deletes the cache entry EntityKey(id) and replies with the
\* deleted row's values.  From then on, until a CreateOne, no row and no
\* cache entry for id exists, and a ReadOne(id) served in such a state
\* replies 404.
C17_DeleteOne ==
    /\ (Served(last, "DeleteOne") /\ ~CommitRaised(last)) =>
          LET id == last.req.item_id
              tb == last.tableBefore
          IN  IF id \notin DOMAIN tb
              THEN /\ last.resp.status = 404
                   /\ table = tb
                   /\ cache = last.cacheBefore
                   /\ last.cacheCalls = << >>
              ELSE /\ last.resp.status = 200
                   /\ DOMAIN table = DOMAIN tb \ {id}
                   /\ \A i \in DOMAIN table : table[i] = tb[i]
                   /\ Cardinality(CallsOf(last, "commit")) = 1
                   /\ last.resp.body[1].id = id
                   /\ last.resp.body[1].name = tb[id].name
                   /\ last.resp.body[1].age = tb[id].age
                   /\ EntityKey(id) \notin DOMAIN cache
                   /\ hasCache =>
                         last.cacheCalls = << CacheCall("delete", << EntityKey(id) >>) >>
                   /\ \A k \in DOMAIN cache : cache[k] = last.cacheBefore[k]
                   /\ DOMAIN cache = DOMAIN last.cacheBefore \ {EntityKey(id)}
    /\ \A id \in Ids :
          (nreq > 0 /\ id \notin DOMAIN last.tableBefore
             /\ EntityKey(id) \notin DOMAIN last.cacheBefore) =>
              /\ ~Served(last, "CreateOne") =>
                    (id \notin DOMAIN table /\ EntityKey(id) \notin DOMAIN cache)
              /\ (Served(last, "ReadOne") /\ last.req.item_id = id) => last.resp.status = 404

\* C17 case: with a cache configured, the DeleteOne of a row whose entity
\* is cached, leaving another row, then a ReadOne of the deleted id
C17_Witness ==
    /\ hasCache
    /\ Succeeded(prev, "DeleteOne")
    /\ EntityKey(prev.req.item_id) \in DOMAIN prev.cacheBefore
    /\ DOMAIN last.tableBefore # {}
    /\ Served(last, "ReadOne") /\ last.req.item_id = prev.req.item_id
    /\ last.resp.status = 404

\* a read-one exchange that found a cache entry under its key
ReadOneHit(e) ==
    /\ hasCache
    /\ Served(e, "ReadOne")
    /\ EntityKey(e.req.item_id) \in DOMAIN e.cacheBefore

\* C18: with a cache configured, a ReadOne that finds an entry under its key
\* replies with the cached value and makes no session call; one that finds
\* none, for an existing row, fetches the row and stores the entity under
\* the key with the configured expiry (60 seconds by default) before it
\* replies with it.  Without a cache no handler makes a cache call.
C18_CacheAside ==
    /\ ReadOneHit(last) =>
          LET entry == last.cacheBefore[EntityKey(last.req.item_id)]
          IN  /\ last.dbCalls = << >>
              /\ last.resp.status = 200
              /\ last.resp.body = jsonable_encoder(entry.value)
              /\ last.cacheCalls = << CacheCall("get", << EntityKey(last.req.item_id) >>) >>
              /\ cache = last.cacheBefore
    /\ (hasCache /\ ReadOneMiss(last) /\ last.req.item_id \in DOMAIN last.tableBefore) =>
          LET key == EntityKey(last.req.item_id)
          IN  /\ Len(last.dbCalls) = 1 /\ last.dbCalls[1].fn = "get"
              /\ last.cacheCalls = << CacheCall("get", << key >>), CacheCall("set", << key >>) >>
              /\ key \in DOMAIN cache
              /\ cache[key].expire = 60
              /\ jsonable_encoder(cache[key].value) = last.resp.body
              /\ \A k \in DOMAIN cache \ {key} :
                    k \in DOMAIN last.cacheBefore /\ cache[k] = last.cacheBefore[k]
    /\ ~hasCache => (last.cacheCalls = << >> /\ cache = EmptyCache)

\* C18 case: a ReadOne that misses and stores, then a ReadOne of the same id
\* that is served from the entry
C18_Witness ==
    /\ hasCache
    /\ ReadOneMiss(prev) /\ prev.resp.status = 200
    /\ ReadOneHit(last) /\ last.req.item_id = prev.req.item_id
    /\ last.resp.body = prev.resp.body
    /\ last.dbCalls = << >>

\* C19: a CreateOne, whether it succeeds or fails, makes no cache call and
\* leaves every cache entry, the list entry "widget_all" included, as it was.
C19_CreateLeavesCache ==
    Served(last, "CreateOne") =>
        /\ last.cacheCalls = << >>
        /\ cache = last.cacheBefore

\* C19 case: a CreateOne that succeeds while the list and an entity are cached
C19_Witness ==
    /\ Succeeded(last, "CreateOne")
    /\ ListKey \in DOMAIN last.cacheBefore
    /\ \E id \in Ids : EntityKey(id) \in DOMAIN last.cacheBefore
    /\ ListKey \in DOMAIN cache

\* the payload of a create or update exchange fails the handler's schema:
\* it has a field that is no column (for an update, that is no non-key
\* column), or a value that has not the column's type
FailsSchema(e) ==
    LET allowed == IF Served(e, "CreateOne") THEN {"id", "name", "age"}
                   ELSE {"name", "age"}
        types == [k \in {"id", "name", "age"} |-> IF k = "name" THEN "str" ELSE "int"]
    IN  /\ e.req.op \in {"CreateOne", "UpdateOne"}
        /\ \/ ~(DOMAIN e.req.payload \subseteq allowed)
           \/ \E k \in DOMAIN e.req.payload \cap allowed : e.req.json_types[k] # types[k]

\* C20: a create or update request whose payload fails its schema is
\* answered 422, and the handler makes no session call and no cache call and
\* leaves the rows as they were.
C20_ValidationFirst ==
    FailsSchema(last) =>
        /\ last.resp.status = 422
        /\ last.dbCalls = << >>
        /\ last.cacheCalls = << >>
        /\ table = last.tableBefore
        /\ cache = last.cacheBefore

\* the exchange was served by one of the four mutating handlers
Mutating(e) == e.req.op \in {"CreateOne", "UpdateOne", "DeleteOne", "DeleteAll"}
\* the session calls of an exchange that end a transaction
Ended(e) ==
    {i \in 1..Len(e.dbCalls) :
        \/ e.dbCalls[i].fn = "commit" /\ ~e.dbCalls[i].raised
        \/ e.dbCalls[i].fn = "rollback"}

\* C21: a mutating request calls commit at most once and, on every path on
\* which it has used the session (success, 404, constraint violation), has
\* committed or rolled back before it returns, leaving no pending change.
C21_OneTransaction ==
    Mutating(last) =>
        /\ Cardinality(CallsOf(last, "commit")) <= 1
        /\ Len(last.dbCalls) > 0 => Ended(last) # {}
        /\ ~PendingAfter(last)

\* C26: the sequence a ReadAll with a limit returns has at most limit
\* entities, with or without a cache and whatever requests came before.
C26_AtMostLimit ==
    (Served(last, "ReadAll") /\ ~IsNone(last.req.p.limit)) =>
        Len(last.resp.body) <= last.req.p.limit[1]

\* the value of x an entity loaded from the store has after the builder's
\* pipeline ran over it once
OnceProcessedX ==
    Composed(response_postprocessors[1], Len(response_postprocessors[1]),
             [x |-> 0]).x

\* C24: every entity ReadOne or ReadAll returns has had the postprocessor
\* pipeline applied exactly once, whether the reply came from the store or
\* from a cache entry.
C24_ProcessedOnce ==
    (Succeeded(last, "ReadOne") \/ Succeeded(last, "ReadAll")) =>
        \A i \in 1..Len(last.resp.body) : last.resp.body[i].x = OnceProcessedX

\* under the pipeline incX, dblX: a ReadAll answered from the store with two
\* entities, then a ReadOne answered from the cache
C24_Witness ==
    /\ response_postprocessors = Some(<< "incX", "dblX" >>)
    /\ Succeeded(prev, "ReadAll") /\ prev.dbCalls # << >>
    /\ Len(prev.resp.body) = 2 /\ prev.resp.body[2].x = 2
    /\ ReadOneHit(last) /\ last.dbCalls = << >>
    /\ last.resp.body[1].x = 2

\* the ticks an entry set with the builder's expiry lives
TtlTicks == (cache_expiry_seconds + TickSeconds - 1) \div TickSeconds
\* the body of a reply lists exactly the rows of the table, with their values
ListsRows(body, tbl) ==
    /\ Len(body) = Cardinality(DOMAIN tbl)
    /\ \A i \in 1..Len(body) :
          /\ body[i].id \in DOMAIN tbl
          /\ body[i].name = tbl[body[i].id].name
          /\ body[i].age = tbl[body[i].id].age
    /\ \A i, j \in 1..Len(body) : body[i].id = body[j].id => i = j

\* C22: against a cache whose entries expire ttl ticks after their set, a
\* ReadAll issued more than ttl ticks after the latest committed create,
\* update or delete returns the committed rows, never a list cached before
\* that write.
C22_BoundedStaleness ==
    (Succeeded(last, "ReadAll") /\ askedAt - writeAt > TtlTicks) =>
        ListsRows(last.resp.body, last.tableBefore)

\* a DeleteOne committed while the list entry held the row, and the ReadAll
\* issued more than ttl ticks later lists the rows without it
C22_Witness ==
    /\ Succeeded(prev, "DeleteOne")
    /\ ListKey \in DOMAIN prev.cacheBefore
    /\ \E i \in 1..Len(prev.cacheBefore[ListKey].value.items) :
          prev.cacheBefore[ListKey].value.items[i].id = prev.req.item_id
    /\ Succeeded(last, "ReadAll")
    /\ askedAt - writeAt > TtlTicks
    /\ Len(last.resp.body) = 1
    /\ last.resp.body[1].id # prev.req.item_id

\* no client is inside its handler
Quiescent == \A c \in DOMAIN procs : procs[c].pc \in {"idle", "done"}
\* client c sent its request and its handler has returned
Completed(c) == procs[c].pc = "done"

\* C23: a DeleteAll that succeeds returns an empty sequence, also when a
\* CreateOne of another client commits between its commit and its re-listing.
C23_DeleteAllEmpty ==
    (Completed("DeleteAll") /\ procs["DeleteAll"].reply[1].status = 200) =>
        procs["DeleteAll"].reply[1].body = << >>

\* C25: once concurrent ReadOne, UpdateOne and DeleteOne requests (and no
\* other) have all completed, the cache entry of an id is absent or holds the
\* committed row of that id: no ReadOne leaves a pre-update value behind.
C25_CacheConverges ==
    (Quiescent /\ Completed("ReadOne") /\ Completed("UpdateOne")
       /\ ~Completed("DeleteAll") /\ ~Completed("CreateOne")) =>
        \A id \in Ids :
            EntityKey(id) \in DOMAIN cache =>
                /\ id \in DOMAIN table
                /\ cache[EntityKey(id)].value.items[1].name = table[id].name
                /\ cache[EntityKey(id)].value.items[1].age = table[id].age

====
